---- MODULE Spec2Model ----
(***************************************************************************)
(* A model of src/client.rs: the OVH signed-request client.                *)
(*                                                                         *)
(* Strings are sequences of one-character strings, so that concatenation,  *)
(* joining, decimal formatting and decimal parsing are computed and not    *)
(* assumed.  Machine integers are scaled from 64 bits down to WordBits     *)
(* bits: u64 is 0..UMax and i64 is IMin..IMax, and every conversion and    *)
(* every overflowing operation of the source is kept at that width.        *)
(***************************************************************************)
EXTENDS Integers, Sequences, FiniteSets, TLC

VARIABLES
    client,           \* the OvhClient the callers share, or NoClient
    built,            \* the last construction: its inputs and what it returned
    calls,            \* per caller: the async call in progress (its request context)
    clock,            \* the local system clock, in seconds since the epoch
    ticks,            \* how often the local clock has advanced
    overflow_checks,  \* the build profile: TRUE panics on overflow, FALSE wraps
    sigcheck          \* two argument lists of signature, and the two signatures

vars == <<client, built, calls, clock, ticks, overflow_checks, sigcheck>>

----------------------------------------------------------------------------
(* Bounds *)

\* width, in bits, of the machine word that stands for the source's 64
WordBits == 4

\* how often the local clock may advance during a run
MaxTicks == 1

Pow2(n) == 2 ^ n
UMax == Pow2(WordBits) - 1          \* u64::MAX
IMax == Pow2(WordBits - 1) - 1      \* i64::MAX
IMin == 0 - Pow2(WordBits - 1)      \* i64::MIN

----------------------------------------------------------------------------
(* Strings *)

Digits == <<"0", "1", "2", "3", "4", "5", "6", "7", "8", "9">>

IsDigit(ch) == \E d \in 1..10 : Digits[d] = ch

DigitVal(ch) == (CHOOSE d \in 1..10 : Digits[d] = ch) - 1

RECURSIVE NatToString(_)
NatToString(n) ==
    IF n < 10 THEN <<Digits[n + 1]>>
    ELSE NatToString(n \div 10) \o <<Digits[(n % 10) + 1]>>

\* i64::to_string
to_string(i) == IF i < 0 THEN <<"-">> \o NatToString(0 - i) ELSE NatToString(i)

ParseOk(n) == [ok |-> TRUE, val |-> n]
ParseErr == [ok |-> FALSE, val |-> 0]

RECURSIVE ParseDigits(_, _)
ParseDigits(s, acc) ==
    IF s = <<>> THEN ParseOk(acc)
    ELSE IF ~IsDigit(Head(s)) THEN ParseErr
    ELSE IF acc * 10 + DigitVal(Head(s)) > UMax THEN ParseErr
    ELSE ParseDigits(Tail(s), acc * 10 + DigitVal(Head(s)))

\* str::parse::<u64>: an optional "+", then one or more decimal digits, then
\* nothing else, and the value within u64
ParseU64(s) ==
    IF s = <<>> THEN ParseErr
    ELSE IF Head(s) = "+"
         THEN (IF Tail(s) = <<>> THEN ParseErr ELSE ParseDigits(Tail(s), 0))
    ELSE ParseDigits(s, 0)

\* a mutant of Join: the separator is left out
RECURSIVE JoinNoSeparator(_, _)
JoinNoSeparator(values, sep) ==
    IF values = <<>> THEN <<>>
    ELSE Head(values) \o JoinNoSeparator(Tail(values), sep)

\* [&str]::join(sep)
RECURSIVE Join(_, _)
Join(values, sep) ==
    IF values = <<>> THEN <<>>
    ELSE IF Len(values) = 1 THEN Head(values)
    ELSE Head(values) \o sep \o Join(Tail(values), sep)

\* sha1::Sha1::from(bytes).hexdigest(): the digest is not computed; it is a
\* collision-free function of the bytes hashed, written as the bytes between
\* two marks
Sha1HexDigest(bytes) == <<"sha1(">> \o bytes \o <<")">>

\* the bytes HeaderValue::from_str refuses
InvalidHeaderChars == {"\n"}

\* HeaderValue::from_str(value).is_ok()
HeaderValueOk(value) == \A i \in 1..Len(value) : value[i] \notin InvalidHeaderChars

----------------------------------------------------------------------------
(* The endpoint registry *)

Https == <<"h","t","t","p","s",":","/","/">>
V1 == <<"/","1",".","0">>

ENDPOINTS ==
    ("ovh-eu" :> Https \o <<"e","u",".","a","p","i",".","o","v","h",".","c","o","m">> \o V1)
 @@ ("ovh-us" :> Https \o <<"a","p","i",".","u","s",".","o","v","h","c","l","o","u","d",".","c","o","m">> \o V1)
 @@ ("ovh-ca" :> Https \o <<"c","a",".","a","p","i",".","o","v","h",".","c","o","m">> \o V1)
 @@ ("kimsufi-eu" :> Https \o <<"e","u",".","a","p","i",".","k","i","m","s","u","f","i",".","c","o","m">> \o V1)
 @@ ("kimsufi-ca" :> Https \o <<"c","a",".","a","p","i",".","k","i","m","s","u","f","i",".","c","o","m">> \o V1)
 @@ ("soyoustart-eu" :> Https \o <<"e","u",".","a","p","i",".","s","o","y","o","u","s","t","a","r","t",".","c","o","m">> \o V1)
 @@ ("soyoustart-ca" :> Https \o <<"c","a",".","a","p","i",".","s","o","y","o","u","s","t","a","r","t",".","c","o","m">> \o V1)

----------------------------------------------------------------------------
(* Construction *)

NoClient == [some |-> FALSE]

SomeClient(endpoint, application_key, application_secret, consumer_key) ==
    [some |-> TRUE,
     endpoint |-> endpoint,
     application_key |-> application_key,
     application_secret |-> application_secret,
     consumer_key |-> consumer_key]

\* a mutant of New: the endpoint lookup falls back to ovh-eu
NewFallback(endpoint, application_key, application_secret, consumer_key) ==
    IF endpoint \in DOMAIN ENDPOINTS
    THEN SomeClient(ENDPOINTS[endpoint], application_key,
                    application_secret, consumer_key)
    ELSE SomeClient(ENDPOINTS["ovh-eu"], application_key,
                    application_secret, consumer_key)

\* OvhClient::new
New(endpoint, application_key, application_secret, consumer_key) ==
    IF endpoint \notin DOMAIN ENDPOINTS THEN NoClient
    ELSE SomeClient(ENDPOINTS[endpoint], application_key,
                    application_secret, consumer_key)

\* Result<OvhClient> and Result<Response>
Ok(v) == [kind |-> "Ok", value |-> v]
ConfigError(msg) == [kind |-> "Err", variant |-> "ConfigError", cause |-> msg]
Error(cause) == [kind |-> "Err", variant |-> "Error", cause |-> cause]
Panic == [kind |-> "Panic"]

\* the message "missing key <key>" (the source writes the key between backquotes)
MissingKey(key) == "missing key " \o key

\* Ini::get(section, key)
IniGet(ini, section, key) ==
    IF section \in DOMAIN ini /\ key \in DOMAIN ini[section]
    THEN [some |-> TRUE, value |-> ini[section][key]]
    ELSE [some |-> FALSE]

\* a mutant of FromConf: a missing consumer_key is read as the empty string
FromConfLenient(file) ==
    IF ~file.loads THEN ConfigError("load")
    ELSE LET endpoint == IniGet(file.ini, "default", "endpoint") IN
    IF ~endpoint.some THEN ConfigError(MissingKey("endpoint"))
    ELSE LET application_key == IniGet(file.ini, endpoint.value, "application_key") IN
    IF ~application_key.some THEN ConfigError(MissingKey("application_key"))
    ELSE LET application_secret == IniGet(file.ini, endpoint.value, "application_secret") IN
    IF ~application_secret.some THEN ConfigError(MissingKey("application_secret"))
    ELSE LET consumer_key == IniGet(file.ini, endpoint.value, "consumer_key")
             c == New(endpoint.value, application_key.value, application_secret.value,
                      IF consumer_key.some THEN consumer_key.value ELSE <<>>) IN
    IF ~c.some THEN ConfigError("failed to create client")
    ELSE Ok(c)

\* OvhClient::from_conf
FromConf(file) ==
    IF ~file.loads THEN ConfigError("load")
    ELSE LET endpoint == IniGet(file.ini, "default", "endpoint") IN
    IF ~endpoint.some THEN ConfigError(MissingKey("endpoint"))
    ELSE LET application_key == IniGet(file.ini, endpoint.value, "application_key") IN
    IF ~application_key.some THEN ConfigError(MissingKey("application_key"))
    ELSE LET application_secret == IniGet(file.ini, endpoint.value, "application_secret") IN
    IF ~application_secret.some THEN ConfigError(MissingKey("application_secret"))
    ELSE LET consumer_key == IniGet(file.ini, endpoint.value, "consumer_key") IN
    IF ~consumer_key.some THEN ConfigError(MissingKey("consumer_key"))
    ELSE LET c == New(endpoint.value, application_key.value,
                      application_secret.value, consumer_key.value) IN
    IF ~c.some THEN ConfigError("failed to create client")
    ELSE Ok(c)

----------------------------------------------------------------------------
(* Requests, headers and the pure helpers of the client *)

GET == <<"G","E","T">>
POST == <<"P","O","S","T">>
PUT == <<"P","U","T">>
DELETE == <<"D","E","L","E","T","E">>

AuthTime == <<"/","a","u","t","h","/","t","i","m","e">>

EmptyHeaders == [n \in {} |-> [value |-> <<>>, sensitive |-> FALSE]]

\* HeaderMap::insert
Insert(headers, name, header_value) ==
    [n \in DOMAIN headers \cup {name} |->
        IF n = name THEN header_value ELSE headers[n]]

\* a request as reqwest sends it
Request(method, target, headers, body) ==
    [method |-> method, url |-> target, headers |-> headers, body |-> body]

\* a mutant of insert_sensitive_header: set_sensitive is left out
insert_plain_header(headers, header_name, value) ==
    Insert(headers, header_name, [value |-> value, sensitive |-> FALSE])

\* insert_sensitive_header, when HeaderValue::from_str accepts the value
insert_sensitive_header(headers, header_name, value) ==
    Insert(headers, header_name, [value |-> value, sensitive |-> TRUE])

\* a mutant of signature: the body is left out of the values joined
signature_no_body(self, target, timestamp, method, body) ==
    <<"$", "1", "$">> \o
    Sha1HexDigest(Join(<<self.application_secret, self.consumer_key,
                         method, target, timestamp>>, <<"+">>))

\* OvhClient::signature
signature(self, target, timestamp, method, body) ==
    <<"$", "1", "$">> \o
    Sha1HexDigest(Join(<<self.application_secret, self.consumer_key,
                         method, target, body, timestamp>>, <<"+">>))

\* OvhClient::url
url(self, path) == self.endpoint \o path

\* a mutant of default_headers: the application header holds the secret
default_headers_secret(self) ==
    Insert(EmptyHeaders, "X-Ovh-Application",
           [value |-> self.application_secret, sensitive |-> FALSE])

\* OvhClient::default_headers, when HeaderValue::from_str accepts the key
default_headers(self) ==
    Insert(EmptyHeaders, "X-Ovh-Application",
           [value |-> self.application_key, sensitive |-> FALSE])

\* whether default_headers returns (its unwrap does not panic)
default_headers_ok(self) == HeaderValueOk(self.application_key)

\* u64 -> i64 by try_into
TryIntoI64(u) == IF u > IMax THEN Error("TryFromIntError") ELSE Ok(u)

\* u64 subtraction as the build performs it: a panic with overflow checks,
\* the wrapped difference without
SubU64(a, b, checks) ==
    IF a >= b THEN Ok(a - b)
    ELSE IF checks THEN Panic
    ELSE Ok((a - b + Pow2(WordBits)) % Pow2(WordBits))

\* i64 addition as the build performs it
AddI64(a, b, checks) ==
    IF a + b >= IMin /\ a + b <= IMax THEN Ok(a + b)
    ELSE IF checks THEN Panic
    ELSE Ok(((a + b - IMin) % Pow2(WordBits)) + IMin)

\* now(): the clock is before the epoch when it is negative, and unwrap panics
now(clk) == IF clk < 0 THEN Panic ELSE Ok(clk)

\* the outcome of the time request: a transport failure, or the body's text
NetFail == [ok |-> FALSE, text |-> <<>>]
NetText(text) == [ok |-> TRUE, text |-> text]

\* OvhClient::time_delta, from the reply of its get_noauth("/auth/time")
time_delta(reply, clk, checks) ==
    IF ~reply.ok THEN Error("reqwest::Error")
    ELSE LET server_time == ParseU64(reply.text) IN
    IF ~server_time.ok THEN Error("ParseIntError")
    ELSE IF now(clk).kind = "Panic" THEN Panic
    ELSE LET diff == SubU64(now(clk).value, server_time.val, checks) IN
    IF diff.kind = "Panic" THEN Panic
    ELSE TryIntoI64(diff.value)

\* the arguments of a call of signature, kept beside the headers it produced
Signed(target, timestamp, method, body) ==
    [url |-> target, timestamp |-> timestamp, method |-> method, body |-> body]

NoSigned == Signed(<<>>, <<>>, <<>>, <<>>)

\* a mutant of gen_headers: the signature is computed over an empty body
gen_headers_empty_body(self, target, method, body, delta, clk, checks) ==
    IF now(clk).kind = "Panic" THEN Panic
    ELSE LET now64 == TryIntoI64(now(clk).value) IN
    IF now64.kind = "Err" THEN now64
    ELSE LET sum == AddI64(now64.value, delta, checks) IN
    IF sum.kind = "Panic" THEN Panic
    ELSE LET timestamp == to_string(sum.value)
             sig == signature(self, target, timestamp, method, <<>>) IN
    IF ~HeaderValueOk(self.consumer_key) \/ ~HeaderValueOk(timestamp) THEN Panic
    ELSE Ok([headers |->
                insert_sensitive_header(
                  insert_sensitive_header(
                    insert_sensitive_header(default_headers(self),
                      "X-Ovh-Consumer", self.consumer_key),
                    "X-Ovh-Timestamp", timestamp),
                  "X-Ovh-Signature", sig),
             signed |-> Signed(target, timestamp, method, <<>>)])

\* a mutant of gen_headers: the timestamp is the local time, without the delta
gen_headers_local_time(self, target, method, body, delta, clk, checks) ==
    IF now(clk).kind = "Panic" THEN Panic
    ELSE LET now64 == TryIntoI64(now(clk).value) IN
    IF now64.kind = "Err" THEN now64
    ELSE LET timestamp == to_string(now64.value)
             sig == signature(self, target, timestamp, method, body) IN
    IF ~HeaderValueOk(self.consumer_key) \/ ~HeaderValueOk(timestamp) THEN Panic
    ELSE Ok([headers |->
                insert_sensitive_header(
                  insert_sensitive_header(
                    insert_sensitive_header(default_headers(self),
                      "X-Ovh-Consumer", self.consumer_key),
                    "X-Ovh-Timestamp", timestamp),
                  "X-Ovh-Signature", sig),
             signed |-> Signed(target, timestamp, method, body)])

\* a mutant of gen_headers: the signature header is not attached
gen_headers_unsigned(self, target, method, body, delta, clk, checks) ==
    IF now(clk).kind = "Panic" THEN Panic
    ELSE LET now64 == TryIntoI64(now(clk).value) IN
    IF now64.kind = "Err" THEN now64
    ELSE LET sum == AddI64(now64.value, delta, checks) IN
    IF sum.kind = "Panic" THEN Panic
    ELSE LET timestamp == to_string(sum.value) IN
    IF ~HeaderValueOk(self.consumer_key) \/ ~HeaderValueOk(timestamp) THEN Panic
    ELSE Ok([headers |->
                insert_sensitive_header(
                  insert_sensitive_header(default_headers(self),
                    "X-Ovh-Consumer", self.consumer_key),
                  "X-Ovh-Timestamp", timestamp),
             signed |-> Signed(target, timestamp, method, body)])

\* OvhClient::gen_headers, from the point where its time_delta has returned
\* delta: the headers, or the error or panic that ends the call.  The hex
\* digest in the signature is always a valid header value.
gen_headers(self, target, method, body, delta, clk, checks) ==
    IF now(clk).kind = "Panic" THEN Panic
    ELSE LET now64 == TryIntoI64(now(clk).value) IN
    IF now64.kind = "Err" THEN now64
    ELSE LET sum == AddI64(now64.value, delta, checks) IN
    IF sum.kind = "Panic" THEN Panic
    ELSE LET timestamp == to_string(sum.value)
             sig == signature(self, target, timestamp, method, body) IN
    IF ~HeaderValueOk(self.consumer_key) \/ ~HeaderValueOk(timestamp) THEN Panic
    ELSE Ok([headers |->
                insert_sensitive_header(
                  insert_sensitive_header(
                    insert_sensitive_header(default_headers(self),
                      "X-Ovh-Consumer", self.consumer_key),
                    "X-Ovh-Timestamp", timestamp),
                  "X-Ovh-Signature", sig),
             signed |-> Signed(target, timestamp, method, body)])

----------------------------------------------------------------------------
(* JSON serialization of the data of post and put *)

JsonNull == [t |-> "null", s |-> <<>>]
JsonString(s) == [t |-> "string", s |-> s]
\* a value whose Serialize implementation reports an error
Unserializable == [t |-> "fail", s |-> <<>>]

RECURSIVE JsonEscape(_)
JsonEscape(s) ==
    IF s = <<>> THEN <<>>
    ELSE (CASE Head(s) = "\"" -> <<"\\", "\"">>
            [] Head(s) = "\\" -> <<"\\", "\\">>
            [] Head(s) = "\n" -> <<"\\", "n">>
            [] OTHER -> <<Head(s)>>) \o JsonEscape(Tail(s))

\* serde_json::to_string(data)
serde_json_to_string(data) ==
    CASE data.t = "null" -> Ok(<<"n", "u", "l", "l">>)
      [] data.t = "string" -> Ok(<<"\"">> \o JsonEscape(data.s) \o <<"\"">>)
      [] OTHER -> Error("serde_json::Error")

----------------------------------------------------------------------------
(* One call: its request context and the steps between its awaits *)

NoResult == [kind |-> "None"]

IdleCall ==
    [pc |-> "idle", op |-> "none", path |-> <<>>, data |-> JsonNull,
     url |-> <<>>, body |-> <<>>, sent |-> <<>>, received |-> 0,
     reply |-> NetFail, now1 |-> 0, delta |-> 0, now2 |-> 0,
     signed |-> NoSigned, result |-> NoResult]

\* the call returns result to its caller
Finish(call, result) == [call EXCEPT !.pc = "done", !.result = result]

\* the method string each verb passes to gen_headers
signed_method(op) ==
    CASE op = "get" -> GET
      [] op = "delete" -> DELETE
      [] op = "post" -> POST
      [] op = "put" -> PUT

ApplicationJson ==
    <<"a","p","p","l","i","c","a","t","i","o","n","/","j","s","o","n">>

\* the request each verb builds from the headers of gen_headers and sends
transmit(op, target, headers, body) ==
    CASE op = "get" -> Request(GET, target, headers, <<>>)
      [] op = "delete" -> Request(DELETE, target, headers, <<>>)
      [] op = "post" ->
           Request(POST, target,
                   Insert(headers, "Content-type",
                          [value |-> ApplicationJson, sensitive |-> FALSE]),
                   body)
      [] op = "put" ->
           Request(POST, target,
                   Insert(headers, "Content-type",
                          [value |-> ApplicationJson, sensitive |-> FALSE]),
                   body)

\* OvhClient::get_noauth up to its await: the request is sent, or
\* default_headers panics
get_noauth(self, call, path, next_pc) ==
    IF ~default_headers_ok(self) THEN Finish(call, Panic)
    ELSE [call EXCEPT !.pc = next_pc,
                      !.sent = Append(@, Request(GET, url(self, path),
                                                 default_headers(self), <<>>))]

\* a mutant of begin_gen_headers: no time request; the call goes on to sign
\* with a delta of zero
begin_gen_headers_no_sync(self, call) ==
    IF ~default_headers_ok(self) THEN Finish(call, Panic)
    ELSE [call EXCEPT !.pc = "signing"]

\* OvhClient::gen_headers up to the await of its time_delta
begin_gen_headers(self, call) ==
    IF ~default_headers_ok(self) THEN Finish(call, Panic)
    ELSE get_noauth(self, call, AuthTime, "await_time")

\* each operation from its call to its first await
start(self, op, path, data) ==
    LET base == [IdleCall EXCEPT !.op = op, !.path = path, !.data = data,
                                 !.url = url(self, path)]
        json == serde_json_to_string(data)
    IN CASE op \in {"get", "delete"} -> begin_gen_headers(self, base)
         [] op \in {"post", "put"} ->
              IF json.kind = "Err" THEN Finish(base, json)
              ELSE begin_gen_headers(self, [base EXCEPT !.body = json.value])
         [] op = "get_noauth" -> get_noauth(self, base, path, "await_main")
         [] op = "time_delta" -> get_noauth(self, base, AuthTime, "await_time")

\* the time request has been answered: time_delta returns, to the caller or
\* into gen_headers
on_time_reply(call, reply, clk, checks) ==
    LET d == time_delta(reply, clk, checks)
        c1 == [call EXCEPT !.reply = reply, !.now1 = clk,
                           !.received = IF reply.ok THEN @ + 1 ELSE @]
    IN IF call.op = "time_delta" \/ d.kind # "Ok" THEN Finish(c1, d)
       ELSE [c1 EXCEPT !.pc = "signing", !.delta = d.value]

\* a mutant of sign_and_send: the delta is a field all calls share, so a call
\* signs with the delta another call in progress has just obtained
sign_and_send_shared_delta(self, call, clk, checks) ==
    LET others == {o \in DOMAIN calls :
                      calls[o] # call /\ calls[o].pc \in {"signing", "await_main"}}
        shared == IF others = {} THEN call.delta
                  ELSE calls[CHOOSE o \in others : TRUE].delta
        h == gen_headers(self, call.url, signed_method(call.op), call.body,
                         shared, clk, checks)
        c1 == [call EXCEPT !.now2 = clk]
    IN IF h.kind # "Ok" THEN Finish(c1, h)
       ELSE [c1 EXCEPT !.pc = "await_main",
                       !.signed = h.value.signed,
                       !.sent = Append(@, transmit(call.op, call.url,
                                                   h.value.headers, call.body))]

\* the rest of gen_headers, and the verb sending its request
sign_and_send(self, call, clk, checks) ==
    LET h == gen_headers(self, call.url, signed_method(call.op), call.body,
                         call.delta, clk, checks)
        c1 == [call EXCEPT !.now2 = clk]
    IN IF h.kind # "Ok" THEN Finish(c1, h)
       ELSE [c1 EXCEPT !.pc = "await_main",
                       !.signed = h.value.signed,
                       !.sent = Append(@, transmit(call.op, call.url,
                                                   h.value.headers, call.body))]

\* the main request has been answered, or the transport has failed
on_main_reply(call, reply) ==
    IF reply.ok
    THEN Finish([call EXCEPT !.received = @ + 1], Ok([status |-> reply.status]))
    ELSE Finish(call, Error("reqwest::Error"))

----------------------------------------------------------------------------
(* Inputs *)

Callers == {"caller1"}

Ops == {"get", "delete", "post", "put", "get_noauth", "time_delta"}

Paths == {<<"/", "m">>, <<"/", "m", "+", "1">>}

Data == {JsonNull, JsonString(<<"b", "\"">>), Unserializable}

\* application key, application secret, consumer key
Credentials ==
    { <<<<"a", "k">>, <<"s">>, <<"c", "k">>>>,
      <<<<>>, <<"s">>, <<"c", "k">>>>,
      <<<<"a", "k">>, <<"s">>, <<>>>>,
      <<<<"a", "\n">>, <<"s">>, <<"c", "k">>>>,
      <<<<"a", "k">>, <<"s">>, <<"c", "\n">>>>,
      <<<<"a", "k">>, <<"s", "+">>, <<"c", "k">>>> }

EndpointIds == DOMAIN ENDPOINTS \cup {"wrong-endpoint"}

\* the endpoints of the clients that issue requests
RequestEndpoints == {"ovh-eu", "ovh-ca"}

\* the local clock at the start: before the epoch, and around the i64 and
\* u64 limits
LocalTimes == {0 - 1, 0, 2, IMax, UMax}

\* the server's answers to /auth/time
TimeReplies ==
    {NetFail}
    \cup {NetText(to_string(t)) : t \in {0, 1, 2, 3, IMax, UMax, UMax + 1}}
    \cup {NetText(<<>>), NetText(<<"a">>), NetText(<<"+", "1">>), NetText(<<"-", "1">>)}

MainReplies ==
    {[ok |-> FALSE, status |-> 0], [ok |-> TRUE, status |-> 200],
     [ok |-> TRUE, status |-> 403]}

----------------------------------------------------------------------------
(* The requests of a constructed client *)

EmptyIni == [section \in {} |-> [key \in {} |-> <<>>]]
NoFile == [loads |-> FALSE, ini |-> EmptyIni]

Built(via, endpoint, k, file, result) ==
    [via |-> via, endpoint |-> endpoint, application_key |-> k[1],
     application_secret |-> k[2], consumer_key |-> k[3], file |-> file,
     result |-> result]

NotBuilt == Built("none", "", <<<<>>, <<>>, <<>>>>, NoFile, NoResult)

\* the arguments of one call of signature: the client's secret and consumer
\* key, and the method, path (the URL is the base URL then the path), body
\* and timestamp
SigArgs(secret, consumer_key, method, path, body, timestamp) ==
    [application_secret |-> secret, consumer_key |-> consumer_key,
     method |-> method, path |-> path, body |-> body, timestamp |-> timestamp]

NoSigArgs == SigArgs(<<>>, <<>>, <<>>, <<>>, <<>>, <<>>)

NoSigCheck == [a |-> NoSigArgs, b |-> NoSigArgs, out |-> <<>>]

Init ==
    /\ \E e \in RequestEndpoints, k \in Credentials :
          /\ built = Built("new", e, k, NoFile, New(e, k[1], k[2], k[3]))
          /\ client = built.result
    /\ client.some
    /\ calls = [c \in Callers |-> IdleCall]
    /\ clock \in LocalTimes
    /\ ticks = 0
    /\ overflow_checks \in BOOLEAN
    /\ sigcheck = NoSigCheck

Start(c, op, path, data) ==
    /\ client.some
    /\ calls[c].pc = "idle"
    /\ op \in {"post", "put"} \/ data = JsonNull
    /\ op # "time_delta" \/ path = AuthTime
    /\ calls' = [calls EXCEPT ![c] = start(client, op, path, data)]
    /\ UNCHANGED <<client, built, clock, ticks, overflow_checks, sigcheck>>

TimeReply(c, reply) ==
    /\ calls[c].pc = "await_time"
    /\ calls' = [calls EXCEPT ![c] =
                    on_time_reply(calls[c], reply, clock, overflow_checks)]
    /\ UNCHANGED <<client, built, clock, ticks, overflow_checks, sigcheck>>

SignAndSend(c) ==
    /\ calls[c].pc = "signing"
    /\ calls' = [calls EXCEPT ![c] =
                    sign_and_send(client, calls[c], clock, overflow_checks)]
    /\ UNCHANGED <<client, built, clock, ticks, overflow_checks, sigcheck>>

MainReply(c, reply) ==
    /\ calls[c].pc = "await_main"
    /\ calls' = [calls EXCEPT ![c] = on_main_reply(calls[c], reply)]
    /\ UNCHANGED <<client, built, clock, ticks, overflow_checks, sigcheck>>

\* the caller takes the result; its next call starts from a fresh context
Return(c) ==
    /\ calls[c].pc = "done"
    /\ calls' = [calls EXCEPT ![c] = IdleCall]
    /\ UNCHANGED <<client, built, clock, ticks, overflow_checks, sigcheck>>

\* the local clock advances by a second
Tick ==
    /\ ticks < MaxTicks
    /\ clock < UMax
    /\ clock' = clock + 1
    /\ ticks' = ticks + 1
    /\ UNCHANGED <<client, built, calls, overflow_checks, sigcheck>>

Next ==
    \/ \E c \in Callers, op \in Ops, path \in Paths \cup {AuthTime}, data \in Data :
          Start(c, op, path, data)
    \/ \E c \in Callers, reply \in TimeReplies : TimeReply(c, reply)
    \/ \E c \in Callers : SignAndSend(c)
    \/ \E c \in Callers, reply \in MainReplies : MainReply(c, reply)
    \/ \E c \in Callers : Return(c)
    \/ Tick

Spec == Init /\ [][Next]_vars

----------------------------------------------------------------------------
(* Construction as a run: one client is built, by new or by from_conf *)

Absent == [some |-> FALSE, value |-> <<>>]
Present(v) == [some |-> TRUE, value |-> v]

\* the section of an INI file that holds the credentials present
CredentialSection(ak, as, ck) ==
    LET opt == ("application_key" :> ak) @@ ("application_secret" :> as)
               @@ ("consumer_key" :> ck)
    IN [key \in {n \in DOMAIN opt : opt[n].some} |-> opt[key].value]

\* a parsed INI file: [default] with or without endpoint, and one section of
\* credentials
IniFile(endpoint, section, ak, as, ck) ==
    [loads |-> TRUE,
     ini |-> ("default" :> [key \in {n \in {"endpoint"} : endpoint.some} |->
                               endpoint.value])
             @@ (section :> CredentialSection(ak, as, ck))]

ConfFiles ==
    {NoFile}
    \cup {IniFile(e, s, ak, as, ck) :
            e \in {[some |-> FALSE, value |-> ""]}
                  \cup {[some |-> TRUE, value |-> id] :
                          id \in {"ovh-eu", "ovh-ca", "wrong-endpoint"}},
            s \in {"ovh-eu", "wrong-endpoint"},
            ak \in {Absent, Present(<<"a", "k">>), Present(<<>>)},
            as \in {Absent, Present(<<"s">>)},
            ck \in {Absent, Present(<<"c", "k">>), Present(<<"c", "\n">>)}}

InitConstruct ==
    /\ client = NoClient
    /\ built = NotBuilt
    /\ calls = [c \in Callers |-> IdleCall]
    /\ clock = 0
    /\ ticks = 0
    /\ overflow_checks = TRUE
    /\ sigcheck = NoSigCheck

DoNew(endpoint, k) ==
    /\ built.via = "none"
    /\ built' = Built("new", endpoint, k, NoFile,
                      New(endpoint, k[1], k[2], k[3]))
    /\ client' = built'.result
    /\ UNCHANGED <<calls, clock, ticks, overflow_checks, sigcheck>>

DoFromConf(file) ==
    /\ built.via = "none"
    /\ built' = Built("from_conf", "", <<<<>>, <<>>, <<>>>>, file, FromConf(file))
    /\ client' = IF built'.result.kind = "Ok" THEN built'.result.value
                 ELSE NoClient
    /\ UNCHANGED <<calls, clock, ticks, overflow_checks, sigcheck>>

NextConstruct ==
    \/ \E e \in EndpointIds, k \in Credentials : DoNew(e, k)
    \/ \E file \in ConfFiles : DoFromConf(file)

SpecConstruct == InitConstruct /\ [][NextConstruct]_vars

----------------------------------------------------------------------------
(* Properties *)

AuthOps == {"get", "delete", "post", "put"}

\* the callers whose authenticated call has sent its main request
MainSent == {c \in Callers : calls[c].op \in AuthOps /\ Len(calls[c].sent) = 2}

MainRequest(c) == calls[c].sent[2]

HeaderText(request, name) == request.headers[name].value

Plus == <<"+">>

\* C1: the signature sent is "$1$" followed by the digest of application
\* secret, consumer key, method, URL, body and timestamp, in that order, with
\* a "+" between consecutive fields.
C1_SignatureFormat ==
    \A c \in MainSent :
        LET a == calls[c].signed IN
        HeaderText(MainRequest(c), "X-Ovh-Signature") =
            <<"$", "1", "$">> \o
            Sha1HexDigest(client.application_secret \o Plus \o client.consumer_key
                          \o Plus \o a.method \o Plus \o a.url \o Plus \o a.body
                          \o Plus \o a.timestamp)

\* a request with an empty body has been signed: the string hashed holds two
\* adjacent "+" between the URL and the timestamp
C1_Witness ==
    \E c \in MainSent :
        LET a == calls[c].signed IN
        /\ a.body = <<>>
        /\ HeaderText(MainRequest(c), "X-Ovh-Signature") =
              <<"$", "1", "$">> \o
              Sha1HexDigest(client.application_secret \o Plus \o client.consumer_key
                            \o Plus \o a.method \o Plus \o a.url \o <<"+", "+">>
                            \o a.timestamp)

\* C2: the signature of every authenticated request is the signature of the
\* body transmitted (empty for get and delete, the serialized data for post
\* and put), of the timestamp in its X-Ovh-Timestamp header and of the URL,
\* base URL then path, it is sent to.
C2_SignedWhatIsSent ==
    \A c \in MainSent :
        LET r == MainRequest(c) IN
        /\ r.url = client.endpoint \o calls[c].path
        /\ r.body = IF calls[c].op \in {"get", "delete"} THEN <<>>
                    ELSE serde_json_to_string(calls[c].data).value
        /\ HeaderText(r, "X-Ovh-Signature") =
              signature(client, r.url, HeaderText(r, "X-Ovh-Timestamp"),
                        signed_method(calls[c].op), r.body)

\* a post or put has sent a request with a body
C2_Witness ==
    \E c \in MainSent :
        /\ calls[c].op \in {"post", "put"}
        /\ MainRequest(c).body # <<>>
        /\ calls[c].path = <<"/", "m", "+", "1">>

SignatureHeaders == {"X-Ovh-Consumer", "X-Ovh-Timestamp", "X-Ovh-Signature"}

AuthHeaders == {"X-Ovh-Application"} \cup SignatureHeaders

\* the requests sent without authentication: every time request, and the
\* request of get_noauth
IsNoAuthRequest(c, i) == calls[c].op \notin AuthOps \/ i = 1

\* C3 as stated: get_noauth attaches none of the three signature headers, and
\* every main request of get, post, put and delete carries the four
\* authenticated headers, each with a non-empty value.
C3_AllFourNonEmpty ==
    \A c \in Callers : \A i \in 1..Len(calls[c].sent) :
        LET r == calls[c].sent[i] IN
        IF IsNoAuthRequest(c, i)
        THEN DOMAIN r.headers \cap SignatureHeaders = {}
        ELSE \A h \in AuthHeaders : h \in DOMAIN r.headers /\ r.headers[h].value # <<>>

\* C3 as amended: get_noauth attaches none of the three signature headers;
\* every main request carries the four headers, the timestamp and the
\* signature non-empty, the application and consumer headers holding the
\* application key and the consumer key as given at construction.
C3_AllFourPresent ==
    \A c \in Callers : \A i \in 1..Len(calls[c].sent) :
        LET r == calls[c].sent[i] IN
        IF IsNoAuthRequest(c, i)
        THEN DOMAIN r.headers \cap SignatureHeaders = {}
        ELSE /\ AuthHeaders \subseteq DOMAIN r.headers
             /\ r.headers["X-Ovh-Timestamp"].value # <<>>
             /\ r.headers["X-Ovh-Signature"].value # <<>>
             /\ r.headers["X-Ovh-Application"].value = built.application_key
             /\ r.headers["X-Ovh-Consumer"].value = built.consumer_key

\* a client built with an empty application key has sent a main request
C3_Witness ==
    \E c \in MainSent :
        /\ built.application_key = <<>>
        /\ MainRequest(c).headers["X-Ovh-Application"].value = <<>>

\* C4 as stated: when the local clock does not advance between the time
\* reply and the signing, the timestamp sent is the server time of the reply
\* (a server time that fits i64), whichever of the two clocks is ahead.
C4_TimestampIsServerTime ==
    \A c \in MainSent :
        LET server_time == ParseU64(calls[c].reply.text).val IN
        (calls[c].now1 = calls[c].now2 /\ server_time <= IMax) =>
            HeaderText(MainRequest(c), "X-Ovh-Timestamp") = to_string(server_time)

\* the callers whose time_delta call has returned after its time request was
\* sent, the local clock past the epoch and the server time, if the reply
\* holds one, within i64
TimeDeltaDone ==
    {c \in Callers : /\ calls[c].op = "time_delta"
                     /\ calls[c].pc = "done"
                     /\ Len(calls[c].sent) = 1
                     /\ calls[c].now1 >= 0
                     /\ ParseU64(calls[c].reply.text).val <= IMax}

\* C5 as stated: time_delta returns local time minus server time whenever
\* the request succeeds, the body parses and the difference fits i64, for
\* both signs; and it returns an error exactly in the other cases.
C5_SignedDifference ==
    \A c \in TimeDeltaDone :
        LET reply == calls[c].reply
            server_time == ParseU64(reply.text)
            fits == calls[c].now1 - server_time.val \in IMin..IMax
        IN /\ (reply.ok /\ server_time.ok /\ fits) =>
                  calls[c].result = Ok(calls[c].now1 - server_time.val)
           /\ calls[c].result.kind = "Err" <=>
                  (~reply.ok \/ ~server_time.ok \/ ~fits)

\* C6 as stated: the method signed is the method the main request is sent
\* with.
C6_SignedMethodIsSent ==
    \A c \in MainSent : MainRequest(c).method = calls[c].signed.method

\* C7: an authenticated call sends at most two requests: first the time
\* request, a GET of /auth/time with the application header alone, then the
\* main request, which is sent only once the call's own time reply has been
\* received and has given the delta the call uses; a call that succeeds has
\* made exactly these two round trips.
C7_TwoRoundTrips ==
    \A c \in Callers :
        LET call == calls[c] IN
        call.op \in AuthOps =>
            /\ Len(call.sent) <= 2
            /\ Len(call.sent) >= 1 =>
                  call.sent[1] = Request(GET, client.endpoint \o AuthTime,
                                         default_headers(client), <<>>)
            /\ Len(call.sent) = 2 =>
                  /\ call.received >= 1
                  /\ call.reply.ok
                  /\ time_delta(call.reply, call.now1, overflow_checks)
                        = Ok(call.delta)
                  /\ call.sent[2].url = client.endpoint \o call.path
            /\ (call.pc = "done" /\ call.result.kind = "Ok") =>
                  Len(call.sent) = 2 /\ call.received = 2
            /\ call.pc \in {"await_time", "signing"} => Len(call.sent) = 1
            /\ call.pc = "await_main" => Len(call.sent) = 2

\* an authenticated call has returned a response after its two round trips
C7_Witness ==
    \E c \in Callers :
        /\ calls[c].op \in AuthOps
        /\ calls[c].pc = "done"
        /\ calls[c].result.kind = "Ok"
        /\ Len(calls[c].sent) = 2
        /\ calls[c].delta > 0

\* C8 as stated: every operation returns, with Ok or with a typed Error; none
\* panics.
C8_NoPanic ==
    \A c \in Callers :
        calls[c].pc = "done" => calls[c].result.kind \in {"Ok", "Err"}

\* the seven identifiers of the registry
RegistryKeys ==
    {"ovh-eu", "ovh-us", "ovh-ca", "kimsufi-eu", "kimsufi-ca",
     "soyoustart-eu", "soyoustart-ca"}

\* C9: new returns no client for an identifier that is none of the seven
\* registry keys; for a registry key it returns a client whose base URL is
\* the registry's URL for it and whose credentials are the strings passed.
C9_NewByRegistry ==
    built.via = "new" =>
        /\ DOMAIN ENDPOINTS = RegistryKeys
        /\ built.endpoint \notin RegistryKeys =>
              ~built.result.some /\ client = NoClient
        /\ built.endpoint \in RegistryKeys =>
              /\ built.result.some
              /\ built.result.endpoint = ENDPOINTS[built.endpoint]
              /\ built.result.application_key = built.application_key
              /\ built.result.application_secret = built.application_secret
              /\ built.result.consumer_key = built.consumer_key
              /\ client = built.result

\* new has built a client for the last registry key
C9_Witness ==
    /\ built.via = "new"
    /\ built.endpoint = "soyoustart-ca"
    /\ client.some
    /\ client.application_secret = <<"s", "+">>

\* the required keys a parsed file lacks: endpoint in [default]; with an
\* endpoint, the credentials the section it names does not hold
MissingKeys(ini) ==
    IF "endpoint" \notin DOMAIN ini["default"] THEN {"endpoint"}
    ELSE LET section == ini["default"]["endpoint"] IN
         {key \in {"application_key", "application_secret", "consumer_key"} :
             section \notin DOMAIN ini \/ key \notin DOMAIN ini[section]}

----------------------------------------------------------------------------
(* Concurrent callers of one client *)

ConcurrentCallers == {"caller1", "caller2"}

\* the client the concurrent callers share
SharedClient == New("ovh-eu", <<"a", "k">>, <<"s">>, <<"c", "k">>)

ConcurrentTimeReplies ==
    {NetFail, NetText(<<"0">>), NetText(<<"1">>), NetText(<<"a">>)}

ConcurrentMainReplies ==
    {[ok |-> FALSE, status |-> 0], [ok |-> TRUE, status |-> 200]}

InitConcurrent ==
    /\ client = SharedClient
    /\ built = Built("new", "ovh-eu", <<<<"a", "k">>, <<"s">>, <<"c", "k">>>>,
                     NoFile, SharedClient)
    /\ calls = [c \in ConcurrentCallers |-> IdleCall]
    /\ clock = 2
    /\ ticks = 0
    /\ overflow_checks = FALSE
    /\ sigcheck = NoSigCheck

NextConcurrent ==
    \/ \E c \in ConcurrentCallers, op \in Ops, path \in {<<"/", "m">>, AuthTime},
          data \in {JsonNull} :
          Start(c, op, path, data)
    \/ \E c \in ConcurrentCallers, reply \in ConcurrentTimeReplies :
          TimeReply(c, reply)
    \/ \E c \in ConcurrentCallers : SignAndSend(c)
    \/ \E c \in ConcurrentCallers, reply \in ConcurrentMainReplies :
          MainReply(c, reply)
    \/ \E c \in ConcurrentCallers : Return(c)
    \/ Tick

SpecConcurrent == InitConcurrent /\ [][NextConcurrent]_vars

\* the body a call signs and sends: none for get and delete, the serialized
\* data for post and put
OwnBody(call) ==
    IF call.op \in {"get", "delete"} THEN <<>>
    ELSE serde_json_to_string(call.data).value

\* the main request a call sends when nothing but its own method, path, data,
\* time reply and clock readings enters it
OwnRequest(call) ==
    LET target == url(SharedClient, call.path)
        d == time_delta(call.reply, call.now1, overflow_checks)
        h == gen_headers(SharedClient, target, signed_method(call.op),
                         OwnBody(call), d.value, call.now2, overflow_checks)
    IN transmit(call.op, target, h.value.headers, OwnBody(call))

\* C11: under any interleaving of calls of two callers on one client, the
\* client keeps its base URL and credentials, and the main request of each
\* call, its timestamp, signature and headers, is the one its own method,
\* URL, body and time reply give.
C11_NoSharedRequestState ==
    /\ client = SharedClient
    /\ \A c \in DOMAIN calls :
          (calls[c].op \in AuthOps /\ Len(calls[c].sent) = 2) =>
              calls[c].sent[2] = OwnRequest(calls[c])

\* two calls are in flight at once, each with its main request sent, with
\* different methods and different deltas
C11_Witness ==
    /\ DOMAIN calls = ConcurrentCallers
    /\ \A c \in DOMAIN calls : calls[c].pc = "await_main"
    /\ calls["caller1"].delta # calls["caller2"].delta
    /\ calls["caller1"].op = "get"
    /\ calls["caller2"].op = "post"

----------------------------------------------------------------------------
(* The signature as a function of its six fields *)

SigSecrets == {<<"s">>, <<"s", "+">>}
SigConsumerKeys == {<<"c">>, <<>>}
SigMethods == {GET, POST}
SigPaths == {<<"/", "u">>, <<"/", "u", "+", "b">>, <<"/", "u", "b">>}
SigBodies == {<<>>, <<"c">>, <<"b", "+", "c">>, <<"b", "c">>}
SigTimestamps == {<<"1">>, <<"2">>}

AllSigArgs ==
    {SigArgs(secret, ck, method, path, body, timestamp) :
        secret \in SigSecrets, ck \in SigConsumerKeys, method \in SigMethods,
        path \in SigPaths, body \in SigBodies, timestamp \in SigTimestamps}

\* signature called on a client with these credentials, for this request
SignatureOf(args) ==
    LET self == New("ovh-eu", <<"a", "k">>, args.application_secret,
                    args.consumer_key)
    IN signature(self, url(self, args.path), args.timestamp, args.method,
                 args.body)

InitSignature ==
    /\ client = NoClient
    /\ built = NotBuilt
    /\ calls = [c \in Callers |-> IdleCall]
    /\ clock = 0
    /\ ticks = 0
    /\ overflow_checks = TRUE
    /\ \E a \in AllSigArgs, b \in AllSigArgs :
          sigcheck = [a |-> a, b |-> b, out |-> <<>>]

\* both argument lists are signed
Sign ==
    /\ sigcheck.out = <<>>
    /\ sigcheck' = [sigcheck EXCEPT
                       !.out = <<SignatureOf(sigcheck.a), SignatureOf(sigcheck.b)>>]
    /\ UNCHANGED <<client, built, calls, clock, ticks, overflow_checks>>

\* the same argument lists are signed again
SignAgain ==
    /\ sigcheck.out # <<>>
    /\ sigcheck' = [sigcheck EXCEPT
                       !.out = <<SignatureOf(sigcheck.b), SignatureOf(sigcheck.a)>>,
                       !.a = sigcheck.b, !.b = sigcheck.a]
    /\ UNCHANGED <<client, built, calls, clock, ticks, overflow_checks>>

NextSignature == Sign \/ SignAgain

SpecSignature == InitSignature /\ [][NextSignature]_vars

SigFields ==
    {"application_secret", "consumer_key", "method", "path", "body", "timestamp"}

\* the fields in which the two argument lists differ
DiffFields == {f \in SigFields : sigcheck.a[f] # sigcheck.b[f]}

\* C12: equal argument lists give equal signatures, and two argument lists
\* that differ in exactly one of the six fields give different signatures
\* (the digest taken as collision-free).
C12_DeterministicAndSensitive ==
    sigcheck.out # <<>> =>
        /\ DiffFields = {} => sigcheck.out[1] = sigcheck.out[2]
        /\ Cardinality(DiffFields) = 1 => sigcheck.out[1] # sigcheck.out[2]
        /\ sigcheck.out[1] = SignatureOf(sigcheck.a)

\* two argument lists that differ in the body alone, one body holding a "+",
\* have been signed, and the signatures differ
C12_Witness ==
    /\ sigcheck.out # <<>>
    /\ DiffFields = {"body"}
    /\ sigcheck.a.body = <<"b", "+", "c">>
    /\ sigcheck.out[1] # sigcheck.out[2]

SameClient ==
    /\ sigcheck.a.application_secret = sigcheck.b.application_secret
    /\ sigcheck.a.consumer_key = sigcheck.b.consumer_key

HasPlus(str) == \E i \in 1..Len(str) : str[i] = "+"

\* whether the method, the URL or the body of an argument list holds a "+"
PlusInRequest(args) ==
    \/ HasPlus(args.method)
    \/ HasPlus(ENDPOINTS["ovh-eu"] \o args.path)
    \/ HasPlus(args.body)

\* C15 as stated: for one client, two distinct tuples of method, URL, body and
\* timestamp never give the same joined string, and so never the same
\* signature, also with "+" inside the URL or the body.
C15_JoinInjective ==
    (sigcheck.out # <<>> /\ SameClient /\ sigcheck.a # sigcheck.b) =>
        sigcheck.out[1] # sigcheck.out[2]

\* C15 as amended: for one client, two distinct tuples of method, URL, body
\* and timestamp whose methods, URLs and bodies hold no "+" never give the
\* same joined string.
C15_JoinInjectiveWithoutPlus ==
    (/\ sigcheck.out # <<>>
     /\ SameClient
     /\ sigcheck.a # sigcheck.b
     /\ ~PlusInRequest(sigcheck.a)
     /\ ~PlusInRequest(sigcheck.b)) =>
        sigcheck.out[1] # sigcheck.out[2]

\* two tuples without "+" that differ in URL and body, with the same
\* characters in the same order across the two fields, have been signed
C15_Witness ==
    /\ sigcheck.out # <<>>
    /\ SameClient
    /\ DiffFields = {"path", "body"}
    /\ sigcheck.a.path = <<"/", "u">> /\ sigcheck.a.body = <<"b", "c">>
    /\ sigcheck.b.path = <<"/", "u", "b">> /\ sigcheck.b.body = <<"c">>
    /\ sigcheck.out[1] # sigcheck.out[2]

----------------------------------------------------------------------------
(* Timestamp, sensitive headers, and the application secret *)

\* the i64 sum of two i64 values that the addition returns when it returns
SumI64(a, b) == IF a + b > IMax THEN a + b - Pow2(WordBits) ELSE a + b

\* C13: the timestamp in X-Ovh-Timestamp, which is the timestamp signed, is
\* the decimal string of the i64 sum of the local time read at signing and
\* the delta the call's own time request returned; a call whose local time
\* at signing does not fit i64 returns an error and sends no main request.
C13_TimestampIsNowPlusDelta ==
    /\ \A c \in MainSent :
          LET call == calls[c] IN
          /\ time_delta(call.reply, call.now1, overflow_checks) = Ok(call.delta)
          /\ call.now2 <= IMax
          /\ HeaderText(MainRequest(c), "X-Ovh-Timestamp") =
                to_string(SumI64(call.now2, call.delta))
          /\ call.signed.timestamp = HeaderText(MainRequest(c), "X-Ovh-Timestamp")
    /\ \A c \in Callers :
          (calls[c].op \in AuthOps /\ calls[c].now2 > IMax) =>
              /\ calls[c].pc = "done"
              /\ calls[c].result = Error("TryFromIntError")
              /\ Len(calls[c].sent) = 1

\* a main request has been sent with a delta above zero, the local clock
\* having advanced between the time reply and the signing
C13_Witness ==
    \E c \in MainSent :
        /\ calls[c].delta > 0
        /\ calls[c].now2 = calls[c].now1 + 1
        /\ HeaderText(MainRequest(c), "X-Ovh-Timestamp") =
              to_string(calls[c].now2 + calls[c].delta)

\* C14: in every authenticated request X-Ovh-Consumer, X-Ovh-Timestamp and
\* X-Ovh-Signature are marked sensitive and X-Ovh-Application is not; no
\* other header but the Content-type of post and put is unmarked; and with
\* Content-type added the three sensitive headers are those gen_headers made.
C14_SensitiveHeaders ==
    \A c \in MainSent :
        LET r == MainRequest(c)
            a == calls[c].signed
        IN /\ \A h \in SignatureHeaders :
                 h \in DOMAIN r.headers /\ r.headers[h].sensitive
           /\ "X-Ovh-Application" \in DOMAIN r.headers
           /\ ~r.headers["X-Ovh-Application"].sensitive
           /\ {h \in DOMAIN r.headers : ~r.headers[h].sensitive}
                 = {"X-Ovh-Application"}
                   \cup (IF calls[c].op \in {"post", "put"}
                         THEN {"Content-type"} ELSE {})
           /\ r.headers["X-Ovh-Consumer"] =
                 [value |-> client.consumer_key, sensitive |-> TRUE]
           /\ r.headers["X-Ovh-Timestamp"] =
                 [value |-> a.timestamp, sensitive |-> TRUE]
           /\ r.headers["X-Ovh-Signature"] =
                 [value |-> signature(client, a.url, a.timestamp, a.method, a.body),
                  sensitive |-> TRUE]

\* a post has sent its request, Content-type added to the four headers
C14_Witness ==
    \E c \in MainSent :
        /\ calls[c].op = "post"
        /\ DOMAIN MainRequest(c).headers = AuthHeaders \cup {"Content-type"}
        /\ MainRequest(c).headers["X-Ovh-Signature"].sensitive

\* C16: with the application secret a string other than the application key
\* and the consumer key, no header value, URL or body of any request sent,
\* time request, get_noauth request or main request, is the secret; the
\* secret is on the wire only as the start of what the signature's digest is
\* taken of.
C16_SecretNotSent ==
    LET secret == client.application_secret IN
    secret \notin {client.application_key, client.consumer_key} =>
        /\ \A c \in Callers : \A i \in 1..Len(calls[c].sent) :
              LET r == calls[c].sent[i] IN
              /\ \A h \in DOMAIN r.headers : r.headers[h].value # secret
              /\ r.url # secret
              /\ r.body # secret
        /\ \A c \in MainSent :
              LET v == HeaderText(MainRequest(c), "X-Ovh-Signature") IN
              /\ Len(v) > 5 + Len(secret)
              /\ SubSeq(v, 1, 5 + Len(secret)) =
                    <<"$", "1", "$", "sha1(">> \o secret \o <<"+">>

\* a put has sent its time request and its main request, with a body, for a
\* client whose secret holds a "+"
C16_Witness ==
    \E c \in MainSent :
        /\ calls[c].op = "put"
        /\ client.application_secret = <<"s", "+">>
        /\ MainRequest(c).body # <<>>

====
